---- MODULE Spec2Model ----
(***************************************************************************)
(* ArrayChunks<I, T, N>: an iterator adapter that regroups the items of a  *)
(* source iterator into arrays of N items, keeping the items that did not  *)
(* fill an array in a partially initialised buffer.                        *)
(*                                                                         *)
(* One step of the model is one piece of the adapter's code between two    *)
(* points where something outside the adapter runs: a call from the user   *)
(* (next, remainder, size_hint, drop) or a call of the adapter into the    *)
(* source (self.iter.next()).                                              *)
(***************************************************************************)
EXTENDS Integers, Sequences, FiniteSets, TLC

\* ------------------------------------------------------------------ bounds
MaxN == 3          \* group sizes 0..MaxN
MaxScript == 4     \* every source behaviour of at most this many answers
MaxLen == 7        \* well-behaved and toggling sources of up to this length
MaxCalls == 9      \* next() calls made on one adapter
UsizeBits == 3     \* width of usize in the model

USIZE_MAX == 2^UsizeBits - 1

\* ------------------------------------------------------- Option<T> values
None == <<>>
Some(x) == <<x>>
IsSome(o) == Len(o) = 1
Unwrap(o) == o[1]

\* ------------------------------------------------------------ the source
\* A source iterator is a script of answers to next(): TRUE = an item,
\* FALSE = None.  After the script the source answers None for ever.
\* The script need not be fused: an item may follow a None.
RECURSIVE BoolSeqs(_)
BoolSeqs(n) ==
    IF n = 0 THEN {<<>>}
    ELSE LET S == BoolSeqs(n - 1)
         IN  S \cup {Append(s, b) : s \in {t \in S : Len(t) = n - 1}, b \in BOOLEAN}

\* a range such as 1..=7 or an array's into_iter(): L items, then None
AllTrue(L) == [i \in 1..L |-> TRUE]

\* from_fn(|| { toggle = !toggle; if toggle { Some(..) } else { None } })
Toggle(L) == [i \in 1..L |-> i % 2 = 1]

\* a source that yields one item, answers None and then yields L items
Restart(L) == <<TRUE, FALSE>> \o AllTrue(L)

Scripts ==
    BoolSeqs(MaxScript) \cup {AllTrue(L) : L \in 0..MaxLen}
                        \cup {Toggle(L) : L \in 0..MaxLen}
                        \cup {Restart(L) : L \in 0..MaxLen}

\* once None, always None
IsFused(s) == \A i, j \in 1..Len(s) : (i < j /\ ~s[i]) => ~s[j]

\* number of items among the first p answers of script s
ItemsIn(s, p) == Cardinality({i \in 1..p : s[i]})

Adapters == {1, 2}

VARIABLES
    N,            \* const N: usize
    script,       \* the behaviour of the source iterator
    pc,           \* per adapter: "absent", "idle", "loop", "dropped"
    iter,         \* per adapter: the source's position in its script
    buf,          \* per adapter: [0..N-1 -> slot], a slot is [live, val]
    num_init,     \* per adapter
    cursor,       \* per adapter: index of `slot` in the for loop of next()
    ret,          \* per adapter: what the last next() returned (None before
                  \* the first call)
    calls,        \* per adapter: number of next() calls made
    consulted,    \* per adapter: number of times the source was asked
    yielded,      \* per adapter: the items the source handed over, in order
    call_rem,     \* per adapter: buf[..num_init] when the last next() began
    call_got,     \* per adapter: the items stored by the last next()
    call_asked,   \* per adapter: how often the last next() asked the source
    unwound,      \* per adapter: the last next() was left by a panic of the
                  \* source instead of a return
    emitted,      \* per adapter: the chunks returned to the caller, in order
    log,          \* per adapter: the contents of what each next() returned,
                  \* in order; a clone starts with the log of its original
    released,     \* per adapter: the items drop released, in order
    touched,      \* per adapter: the slot indices drop read
    view,         \* per adapter: Some(slice) that remainder() returned since
                  \* the last call that changed the adapter, else None
    hint,         \* per adapter: Some(size_hint() call and result) made
                  \* since the last call that changed the adapter, else None
    observe,      \* size_hint() results are remembered in est
    est,          \* per adapter: Some(the first size_hint() result that was
                  \* computed from a correct estimate of the source, with
                  \* the number of next() results at that time), else None
    panicked,     \* an operation panicked
    uninit_read   \* a slot that holds no live value was read as a T

vars == <<N, script, pc, iter, buf, num_init, cursor, ret, calls, consulted,
          yielded, call_rem, call_got, call_asked, unwound, emitted, log,
          released, touched, view, hint, observe, est, panicked,
          uninit_read>>

\* ---------------------------------------------------------------- values
\* An item is <<owner, content>>: the adapter whose source made it and its
\* number in that source's sequence (1, 2, 3, ...).  Two items are the same
\* object iff the pairs are equal; a clone has the content of its original.
NoVal == <<0, 0>>
Content(v) == v[2]
Contents(s) == [i \in 1..Len(s) |-> Content(s[i])]

\* MaybeUninit<T>: uninitialised, or the bits of a T that is live (owned by
\* the buffer) or was moved out by ptr::read
UninitSlot == [live |-> FALSE, val |-> NoVal]
NewSlot(v) == [live |-> TRUE, val |-> v]

RECURSIVE Flatten(_)
Flatten(ss) == IF ss = <<>> THEN <<>> ELSE Head(ss) \o Flatten(Tail(ss))

Count(v, s) == Cardinality({i \in 1..Len(s) : s[i] = v})

\* the values of slots lo..hi-1 of adapter a, in order, read as T
ReadSlots(a, lo, hi) == [i \in 1..(hi - lo) |-> buf[a][lo + i - 1].val]
AllLive(a, lo, hi) == \A i \in lo..(hi - 1) : buf[a][i].live

\* ----------------------------------------------------------- usize maths
\* (bug variant: the addition wraps around)
saturating_add_wrapping(x, y) == (x + y) % (2^UsizeBits)

saturating_add(x, y) == IF x + y > USIZE_MAX THEN USIZE_MAX ELSE x + y
checked_add(x, y) == IF x + y > USIZE_MAX THEN None ELSE Some(x + y)

\* ------------------------------------------------------------------ Init
\* IteratorExt::array_chunks -> ArrayChunks::new
new(a) ==
    /\ buf[a] = [i \in 0..(N - 1) |-> UninitSlot]
    /\ num_init[a] = 0

InitAdapter ==
    /\ N \in 0..MaxN
    /\ script \in Scripts
    /\ pc = [a \in Adapters |-> IF a = 1 THEN "idle" ELSE "absent"]
    /\ iter = [a \in Adapters |-> 0]
    /\ buf = [a \in Adapters |-> [i \in 0..(N - 1) |-> UninitSlot]]
    /\ num_init = [a \in Adapters |-> 0]
    /\ new(1)
    /\ cursor = [a \in Adapters |-> 0]
    /\ ret = [a \in Adapters |-> None]
    /\ calls = [a \in Adapters |-> 0]
    /\ consulted = [a \in Adapters |-> 0]
    /\ yielded = [a \in Adapters |-> <<>>]
    /\ call_rem = [a \in Adapters |-> <<>>]
    /\ call_got = [a \in Adapters |-> <<>>]
    /\ call_asked = [a \in Adapters |-> 0]
    /\ unwound = [a \in Adapters |-> FALSE]
    /\ emitted = [a \in Adapters |-> <<>>]
    /\ log = [a \in Adapters |-> <<>>]
    /\ released = [a \in Adapters |-> <<>>]
    /\ touched = [a \in Adapters |-> {}]
    /\ view = [a \in Adapters |-> None]
    /\ hint = [a \in Adapters |-> None]
    /\ est = [a \in Adapters |-> None]
    /\ panicked = FALSE
    /\ uninit_read = FALSE

Init == InitAdapter /\ observe = FALSE

\* ------------------------------------------------------ the source's next
\* self.iter.next(): the answer, and the source's state afterwards
SourceItem(a) ==
    IF iter[a] < Len(script) /\ script[iter[a] + 1]
    THEN Some(<<a, ItemsIn(script, iter[a]) + 1>>)
    ELSE None

SourceAdvance(a) == IF iter[a] < Len(script) THEN iter[a] + 1 ELSE iter[a]

\* items the source will still yield before it next answers None
Pending(a) ==
    LET stops == {p \in (iter[a] + 1)..Len(script) : ~script[p]}
        stop == IF stops = {} THEN Len(script) + 1
                ELSE CHOOSE p \in stops : \A q \in stops : p <= q
    IN  stop - 1 - iter[a]

\* --------------------------------------------------------------- next()
\* (bug variant: every call starts to fill at slot 0)
LoopStart_FromZero(a) == 0

\* &mut self.buf[self.num_init..]: the first slot the loop visits
LoopStart(a) == num_init[a]

\* (bug variant: the loop runs one slot too far)
LoopHasSlot_Inclusive(a) == cursor[a] <= N

\* the for loop has another slot to visit
LoopHasSlot(a) == cursor[a] < N

\* (bug variant: num_init is not reset after a chunk was read out)
NumInitAfterChunk_Stale == N

\* the value of num_init after a chunk was read out of the buffer
NumInitAfterChunk == 0

\* a call of next() arrives; the for loop is set up over buf[num_init..]
NextCall(a) ==
    /\ pc[a] = "idle"
    /\ calls[a] < MaxCalls
    /\ pc' = [pc EXCEPT ![a] = "loop"]
    /\ cursor' = [cursor EXCEPT ![a] = LoopStart(a)]
    /\ calls' = [calls EXCEPT ![a] = @ + 1]
    /\ call_rem' = [call_rem EXCEPT ![a] = ReadSlots(a, 0, num_init[a])]
    /\ call_got' = [call_got EXCEPT ![a] = <<>>]
    /\ call_asked' = [call_asked EXCEPT ![a] = 0]
    /\ unwound' = [unwound EXCEPT ![a] = FALSE]
    /\ view' = [view EXCEPT ![a] = None]
    /\ hint' = [hint EXCEPT ![a] = None]
    /\ UNCHANGED <<N, script, observe, est, log, iter, buf, num_init, ret, consulted, yielded,
                   emitted, released, touched, panicked, uninit_read>>

\* one iteration of the loop in which the source yields an item:
\*   *slot = MaybeUninit::new(item); self.num_init += 1;
StoreItem(a) ==
    /\ pc[a] = "loop"
    /\ LoopHasSlot(a)
    /\ IsSome(SourceItem(a))
    /\ LET v == Unwrap(SourceItem(a))
       IN  /\ buf' = [buf EXCEPT ![a][cursor[a]] = NewSlot(v)]
           /\ yielded' = [yielded EXCEPT ![a] = Append(@, v)]
           /\ call_got' = [call_got EXCEPT ![a] = Append(@, v)]
    /\ num_init' = [num_init EXCEPT ![a] = @ + 1]
    /\ cursor' = [cursor EXCEPT ![a] = @ + 1]
    /\ iter' = [iter EXCEPT ![a] = SourceAdvance(a)]
    /\ consulted' = [consulted EXCEPT ![a] = @ + 1]
    /\ call_asked' = [call_asked EXCEPT ![a] = @ + 1]
    /\ UNCHANGED <<N, script, observe, est, unwound, log, pc, ret, calls, call_rem, emitted, released,
                   touched, view, hint, panicked, uninit_read>>

\* one iteration of the loop in which the source answers None: the `?`
\* returns None from next() and leaves buf and num_init as they are
SourceExhausted(a) ==
    /\ pc[a] = "loop"
    /\ LoopHasSlot(a)
    /\ ~IsSome(SourceItem(a))
    /\ iter' = [iter EXCEPT ![a] = SourceAdvance(a)]
    /\ consulted' = [consulted EXCEPT ![a] = @ + 1]
    /\ call_asked' = [call_asked EXCEPT ![a] = @ + 1]
    /\ ret' = [ret EXCEPT ![a] = None]
    /\ log' = [log EXCEPT ![a] = Append(@, None)]
    /\ pc' = [pc EXCEPT ![a] = "idle"]
    /\ UNCHANGED <<N, script, observe, est, unwound, buf, num_init, cursor, calls, yielded,
                   call_rem, call_got, emitted, released, touched, view,
                   hint, panicked, uninit_read>>

\* one iteration of the loop in which self.iter.next() panics: the panic
\* unwinds through next(), which has no handler, and leaves buf and num_init
\* as they are.  Whether the source has moved on is the source's affair.
SourcePanics(a) ==
    /\ pc[a] = "loop"
    /\ LoopHasSlot(a)
    /\ \E moved \in BOOLEAN :
         iter' = [iter EXCEPT ![a] = IF moved THEN SourceAdvance(a) ELSE @]
    /\ consulted' = [consulted EXCEPT ![a] = @ + 1]
    /\ call_asked' = [call_asked EXCEPT ![a] = @ + 1]
    /\ unwound' = [unwound EXCEPT ![a] = TRUE]
    /\ panicked' = TRUE
    /\ pc' = [pc EXCEPT ![a] = "idle"]
    /\ UNCHANGED <<N, script, observe, est, buf, num_init, cursor, ret, calls,
                   yielded, call_rem, call_got, emitted, log, released,
                   touched, view, hint, uninit_read>>

\* the loop is over: the whole array is read out as [T; N] (ptr::read and
\* array_assume_init), num_init is reset and the chunk is returned.  The
\* bits stay in buf, but the buffer does not own the items any more.
EmitChunk(a) ==
    /\ pc[a] = "loop"
    /\ ~LoopHasSlot(a)
    /\ LET chunk == ReadSlots(a, 0, N)
       IN  /\ emitted' = [emitted EXCEPT ![a] = Append(@, chunk)]
           /\ ret' = [ret EXCEPT ![a] = Some(chunk)]
           /\ log' = [log EXCEPT ![a] = Append(@, Some(Contents(chunk)))]
    /\ uninit_read' = (uninit_read \/ ~AllLive(a, 0, N))
    /\ buf' = [buf EXCEPT ![a] = [i \in 0..(N - 1) |->
                                    [live |-> FALSE, val |-> buf[a][i].val]]]
    /\ num_init' = [num_init EXCEPT ![a] = NumInitAfterChunk]
    /\ pc' = [pc EXCEPT ![a] = "idle"]
    /\ UNCHANGED <<N, script, observe, est, unwound, call_asked, iter, cursor, calls, consulted, yielded,
                   call_rem, call_got, released, touched, view, hint,
                   panicked>>

\* ------------------------------------------------------------ remainder()
\* (bug variant: the slice covers the whole buffer)
RemainderEnd_All(a) == N

\* &self.buf[..self.num_init]: the slots the slice covers
RemainderEnd(a) == num_init[a]

remainder(a) ==
    /\ pc[a] = "idle"
    /\ view' = [view EXCEPT ![a] = Some(ReadSlots(a, 0, RemainderEnd(a)))]
    /\ uninit_read' = (uninit_read \/ ~AllLive(a, 0, RemainderEnd(a)))
    /\ UNCHANGED <<N, script, observe, est, unwound, call_asked, log, pc, iter, buf, num_init, cursor, ret, calls,
                   consulted, yielded, call_rem, call_got, emitted, released,
                   touched, hint, panicked>>

\* ------------------------------------------------------------ size_hint()
\* the estimates self.iter.size_hint() may report in the current state
HintValues(a) ==
    {0, IF Pending(a) > USIZE_MAX THEN USIZE_MAX ELSE Pending(a),
     USIZE_MAX - 1, USIZE_MAX}

SourceHints(a) ==
    {<<lo, hi>> : lo \in HintValues(a),
                  hi \in {None} \cup {Some(x) : x \in HintValues(a)}}

\* the source's estimate h bounds the items it yields before its next None
EstimateCorrect(h, a) ==
    /\ h[1] <= Pending(a)
    /\ IsSome(h[2]) => Pending(a) <= Unwrap(h[2])

\* (bug variant: the lower bound is rounded up)
min_chunks_RoundUp(min_items, a) ==
    (saturating_add(min_items, num_init[a]) + N - 1) \div N

min_chunks(min_items, a) == saturating_add(min_items, num_init[a]) \div N

max_chunks(max_items, a) ==
    IF ~IsSome(max_items) THEN None
    ELSE LET sum == checked_add(Unwrap(max_items), num_init[a])
         IN  IF ~IsSome(sum) THEN None ELSE Some(Unwrap(sum) \div N)

\* a division by N = 0 panics ("attempt to divide by zero")
size_hint(a) ==
    /\ pc[a] = "idle"
    /\ \E h \in SourceHints(a) :
         IF N = 0
         THEN /\ panicked' = TRUE
              /\ hint' = hint
              /\ est' = est
         ELSE /\ hint' = [hint EXCEPT ![a] =
                            Some([min_items |-> h[1], max_items |-> h[2],
                                  out |-> <<min_chunks(h[1], a),
                                            max_chunks(h[2], a)>>])]
              /\ panicked' = panicked
              /\ est' = IF ~observe \/ IsSome(est[a]) \/ ~EstimateCorrect(h, a)
                        THEN est
                        ELSE [est EXCEPT ![a] =
                                Some([out |-> <<min_chunks(h[1], a),
                                                max_chunks(h[2], a)>>,
                                      exact |-> h = <<Pending(a),
                                                      Some(Pending(a))>>,
                                      sum |-> Pending(a) + num_init[a],
                                      at |-> Len(log[a])])]
    /\ UNCHANGED <<N, script, observe, unwound, call_asked, log, pc, iter, buf, num_init, cursor, ret, calls,
                   consulted, yielded, call_rem, call_got, emitted, released,
                   touched, view, uninit_read>>

\* ------------------------------------------------------------------ drop
\* (bug variant: drop visits the whole buffer)
DropEnd_All(a) == N

\* &self.buf[..self.num_init]: the slots drop visits
DropEnd(a) == num_init[a]

\* drop(item.assume_init_read()) for every visited slot, then the fields
\* are dropped: the source goes, MaybeUninit slots drop nothing
drop(a) ==
    /\ pc[a] = "idle"
    /\ pc' = [pc EXCEPT ![a] = "dropped"]
    /\ released' = [released EXCEPT ![a] = ReadSlots(a, 0, DropEnd(a))]
    /\ touched' = [touched EXCEPT ![a] = 0..(DropEnd(a) - 1)]
    /\ uninit_read' = (uninit_read \/ ~AllLive(a, 0, DropEnd(a)))
    /\ view' = [view EXCEPT ![a] = None]
    /\ hint' = [hint EXCEPT ![a] = None]
    /\ UNCHANGED <<N, script, observe, est, unwound, call_asked, log, iter, buf, num_init, cursor, ret, calls,
                   consulted, yielded, call_rem, call_got, emitted,
                   panicked>>

\* ----------------------------------------------------------------- clone
\* Clone for ArrayChunks: the test tests::clone uses it, its implementation
\* is not among the sources.  After the design: the source is duplicated,
\* the first num_init slots of the buffer hold clones of the original's
\* items, the other slots are uninitialised and are not looked at.

\* (bug variant: the buffer is copied bit by bit, as for a Copy type)
CloneBuf_Bitwise(a, b) == buf[a]

CloneBuf(a, b) ==
    [i \in 0..(N - 1) |->
       IF i < num_init[a] THEN NewSlot(<<b, Content(buf[a][i].val)>>)
       ELSE UninitSlot]

\* adapter b comes into being as a clone of adapter a
clone(a, b) ==
    /\ pc[a] = "idle"
    /\ pc[b] = "absent"
    /\ pc' = [pc EXCEPT ![b] = "idle"]
    /\ iter' = [iter EXCEPT ![b] = iter[a]]
    /\ buf' = [buf EXCEPT ![b] = CloneBuf(a, b)]
    /\ num_init' = [num_init EXCEPT ![b] = num_init[a]]
    /\ uninit_read' = (uninit_read \/ ~AllLive(a, 0, num_init[a]))
    /\ calls' = [calls EXCEPT ![b] = calls[a]]
    /\ log' = [log EXCEPT ![b] = log[a]]
    /\ yielded' = [yielded EXCEPT ![b] =
                     [i \in 1..num_init[a] |-> <<b, Content(buf[a][i - 1].val)>>]]
    /\ UNCHANGED <<N, script, observe, est, unwound, call_asked, cursor, ret, consulted, call_rem, call_got,
                   emitted, released, touched, view, hint, panicked>>

\* ------------------------------------------------------ the specification
Next ==
    \/ NextCall(1)
    \/ StoreItem(1)
    \/ SourceExhausted(1)
    \/ EmitChunk(1)
    \/ remainder(1)
    \/ size_hint(1)
    \/ drop(1)

Spec == Init /\ [][Next]_vars

\* an adapter that may be cloned once; both adapters are then used in any
\* interleaving
MaxCloneScript == 4

InitClone == Init /\ Len(script) <= MaxCloneScript

NextClone ==
    \/ clone(1, 2)
    \/ \E a \in Adapters :
         \/ NextCall(a)
         \/ StoreItem(a)
         \/ SourceExhausted(a)
         \/ EmitChunk(a)
         \/ remainder(a)
         \/ drop(a)

SpecClone == InitClone /\ [][NextClone]_vars

\* the adapter over a source whose next() may panic; the caller catches the
\* panic and goes on using or drops the adapter
NextPanic ==
    \/ NextCall(1)
    \/ StoreItem(1)
    \/ SourceExhausted(1)
    \/ SourcePanics(1)
    \/ EmitChunk(1)
    \/ remainder(1)
    \/ drop(1)

SpecPanic == Init /\ [][NextPanic]_vars

\* the caller calls next() again and again and never drops the adapter;
\* a call that has begun runs to its end
NextRepeat ==
    \/ NextCall(1)
    \/ StoreItem(1)
    \/ SourceExhausted(1)
    \/ EmitChunk(1)
    \/ remainder(1)

SpecRepeat ==
    /\ Init
    /\ [][NextRepeat]_vars
    /\ WF_vars(NextCall(1) \/ StoreItem(1) \/ SourceExhausted(1)
                 \/ EmitChunk(1))

\* the adapter with its size_hint() results remembered, to compare them
\* with the chunks that next() returns afterwards
InitEstimate == InitAdapter /\ observe = TRUE

NextEstimate ==
    \/ NextCall(1)
    \/ StoreItem(1)
    \/ SourceExhausted(1)
    \/ EmitChunk(1)
    \/ size_hint(1)

SpecEstimate == InitEstimate /\ [][NextEstimate]_vars

TypeOK ==
    /\ N \in 0..MaxN
    /\ \A a \in Adapters :
         /\ pc[a] \in {"absent", "idle", "loop", "dropped"}
         /\ num_init[a] \in 0..N
         /\ DOMAIN buf[a] = 0..(N - 1)

\* ================================================================ claims
\* what remainder() would return for adapter a in the current state
Prefix(a) == ReadSlots(a, 0, num_init[a])

\* the items of the source script, as adapter 1 receives them
SourceSeq == [i \in 1..ItemsIn(script, Len(script)) |-> <<1, i>>]

Range(s) == {s[i] : i \in 1..Len(s)}

\* C1: for N >= 1 and a fused source of L items, once next() has returned
\* None there are exactly L / N chunks, each of N items, remainder() has
\* L % N items, and the chunks followed by the remainder are the source
\* sequence in its order.
C1_ChunksThenRemainder ==
    (/\ N >= 1
     /\ IsFused(script)
     /\ pc[1] = "idle" /\ calls[1] > 0 /\ ret[1] = None
     /\ IsSome(view[1]))
    => LET L == ItemsIn(script, Len(script))
       IN  /\ Len(emitted[1]) = L \div N
           /\ \A g \in 1..Len(emitted[1]) : Len(emitted[1][g]) = N
           /\ Len(Unwrap(view[1])) = L % N
           /\ Flatten(emitted[1]) \o Unwrap(view[1]) = SourceSeq

C1_Witness ==
    /\ N = 3 /\ script = AllTrue(7)
    /\ pc[1] = "idle" /\ ret[1] = None
    /\ emitted[1] = << << <<1, 1>>, <<1, 2>>, <<1, 3>> >>,
                       << <<1, 4>>, <<1, 5>>, <<1, 6>> >> >>
    /\ view[1] = Some(<< <<1, 7>> >>)

\* the items adapter a owns in its buffer (none once it was dropped)
Owned(a) == IF pc[a] = "dropped" THEN <<>> ELSE Prefix(a)

\* C2: every item the source yielded is, at any time, in exactly one place:
\* in exactly one returned chunk, or in the buffer's prefix, or (after
\* drop) released exactly once; nothing else is ever returned or released.
\* So after drop every item was returned once or released once, never both.
C2_ExactlyOneOwner ==
    LET out == Flatten(emitted[1])
        all == Range(yielded[1]) \cup Range(out) \cup Range(released[1])
                 \cup Range(Owned(1))
    IN  \A v \in all :
          /\ Count(v, yielded[1]) = 1
          /\ Count(v, out) + Count(v, released[1]) + Count(v, Owned(1)) = 1

C2_Witness ==
    /\ pc[1] = "dropped"
    /\ ~IsFused(script)
    /\ Len(emitted[1]) >= 1
    /\ Len(released[1]) >= 1
    /\ Len(yielded[1]) = Len(Flatten(emitted[1])) + Len(released[1])

\* C3: drop releases exactly the items of slots 0..num_init-1, each once,
\* reads no slot at an index >= num_init, and leaves no live item behind.
C3_DropReleasesPrefix ==
    pc[1] = "dropped" =>
      /\ touched[1] = 0..(num_init[1] - 1)
      /\ released[1] = Prefix(1)
      /\ \A i \in touched[1] : buf[1][i].live
      /\ \A v \in Range(released[1]) : Count(v, released[1]) = 1
      /\ \A i \in 0..(N - 1) : buf[1][i].live => i \in touched[1]

C3_Witness ==
    /\ pc[1] = "dropped"
    /\ N = 3 /\ num_init[1] = 2
    /\ Len(emitted[1]) = 1
    /\ released[1] = << <<1, 4>>, <<1, 5>> >>

\* C4: when next() returns None the remainder is the remainder from before
\* the call followed by the items the source yielded during the call; the
\* loop of a call always stands at index num_init, so a later call goes on
\* from the prefix; and the toggling source with N = 2 gives None with
\* remainder [1], then [1, 2] with remainder [], and the same for [3, 4].
C4_FillResumes ==
    /\ (pc[1] = "idle" /\ calls[1] > 0 /\ ret[1] = None) =>
         /\ Prefix(1) = call_rem[1] \o call_got[1]
         /\ IsSome(view[1]) => Unwrap(view[1]) = call_rem[1] \o call_got[1]
    /\ pc[1] = "loop" =>
         /\ cursor[1] = num_init[1]
         /\ Prefix(1) = call_rem[1] \o call_got[1]
    /\ (script = Toggle(7) /\ N = 2 /\ pc[1] = "idle" /\ IsSome(view[1])) =>
         /\ calls[1] = 1 =>
              ret[1] = None /\ view[1] = Some(<< <<1, 1>> >>)
         /\ calls[1] = 2 =>
              /\ ret[1] = Some(<< <<1, 1>>, <<1, 2>> >>)
              /\ view[1] = Some(<<>>)
         /\ calls[1] = 4 =>
              ret[1] = None /\ view[1] = Some(<< <<1, 3>> >>)
         /\ calls[1] = 5 =>
              /\ ret[1] = Some(<< <<1, 3>>, <<1, 4>> >>)
              /\ view[1] = Some(<<>>)

C4_Witness ==
    /\ script = Toggle(7) /\ N = 2
    /\ pc[1] = "idle" /\ calls[1] = 5
    /\ call_rem[1] = << <<1, 3>> >>
    /\ ret[1] = Some(<< <<1, 3>>, <<1, 4>> >>)
    /\ view[1] = Some(<<>>)

\* C5: remainder() is empty right after new() and right after a next()
\* that returned a chunk; it is non-empty only when the last next()
\* returned None, and then it holds the items that are in no chunk.
C5_RemainderEmptiness ==
    IsSome(view[1]) =>
      /\ calls[1] = 0 => Unwrap(view[1]) = <<>>
      /\ (calls[1] > 0 /\ IsSome(ret[1])) => Unwrap(view[1]) = <<>>
      /\ Unwrap(view[1]) # <<>> =>
           /\ calls[1] > 0 /\ ret[1] = None
           /\ Flatten(emitted[1]) \o Unwrap(view[1]) = yielded[1]

C5_Witness ==
    /\ N >= 2 /\ calls[1] >= 2
    /\ IsSome(ret[1]) /\ call_rem[1] # <<>>
    /\ view[1] = Some(<<>>)

\* C6: with N = 0 every next() returns the empty chunk, never None, and
\* the source is never asked for an item.
C6_ZeroSizeChunks ==
    N = 0 =>
      /\ consulted[1] = 0 /\ iter[1] = 0 /\ yielded[1] = <<>>
      /\ (pc[1] = "idle" /\ calls[1] > 0) => ret[1] = Some(<<>>)
      /\ pc[1] \in {"idle", "dropped"} => Len(emitted[1]) = calls[1]
      /\ \A g \in 1..Len(emitted[1]) : emitted[1][g] = <<>>

C6_Witness ==
    /\ N = 0 /\ script = AllTrue(3)
    /\ pc[1] = "idle" /\ calls[1] = 2
    /\ ret[1] = Some(<<>>)

\* C7: size_hint() returns (min_items + num_init, saturating at the largest
\* usize) / N as lower bound, and (max_items + num_init) / N as upper bound
\* when the source gives an upper bound and the sum does not overflow, else
\* no upper bound.  A source of exactly 7 items with N = 3 gives (2, 2)
\* before any next() and (1, 1) after one chunk; a source that reports
\* (MAX, no upper bound) gives (MAX / 3, no upper bound).
\* (size_hint() returns a value only for N >= 1.)
C7_SizeHintFormula ==
    IsSome(hint[1]) =>
      LET h == Unwrap(hint[1])
          lo == h.min_items + num_init[1]
          exact == h.min_items = Pending(1) /\ h.max_items = Some(Pending(1))
      IN  /\ h.out[1] = (IF lo > USIZE_MAX THEN USIZE_MAX ELSE lo) \div N
          /\ h.out[2] =
               IF h.max_items = None THEN None
               ELSE IF Unwrap(h.max_items) + num_init[1] > USIZE_MAX THEN None
               ELSE Some((Unwrap(h.max_items) + num_init[1]) \div N)
          /\ (script = AllTrue(7) /\ N = 3 /\ exact /\ calls[1] = 0) =>
               h.out = <<2, Some(2)>>
          /\ (script = AllTrue(7) /\ N = 3 /\ exact /\ calls[1] = 1) =>
               h.out = <<1, Some(1)>>
          /\ (N = 3 /\ h.min_items = USIZE_MAX /\ h.max_items = None) =>
               h.out = <<USIZE_MAX \div 3, None>>

C7_Witness ==
    /\ IsSome(hint[1])
    /\ N = 2 /\ num_init[1] = 1
    /\ Unwrap(hint[1]).min_items = USIZE_MAX
    /\ Unwrap(hint[1]).max_items = Some(USIZE_MAX)
    /\ Unwrap(hint[1]).out = <<USIZE_MAX \div 2, None>>

\* C8: no operation faults: new, next, remainder, size_hint and drop all
\* complete normally for every N, N = 0 included.
C8_NoOperationFaults == ~panicked

\* C10: while the adapter exists, 0 <= num_init <= N, the slots below
\* num_init hold live items and the others hold none; remainder() and drop
\* read only slots below num_init; the whole array is read out only when
\* all N slots are live; no slot without a live item is ever read.
C10_PrefixInvariant ==
    /\ ~uninit_read
    /\ pc[1] \in {"idle", "loop"} =>
         /\ num_init[1] \in 0..N
         /\ \A i \in 0..(N - 1) : buf[1][i].live <=> i < num_init[1]
         /\ IsSome(view[1]) => Len(Unwrap(view[1])) = num_init[1]
    /\ (pc[1] = "loop" /\ cursor[1] >= N) =>
         num_init[1] = N /\ AllLive(1, 0, N)
    /\ pc[1] = "dropped" =>
         /\ touched[1] \subseteq 0..(num_init[1] - 1)
         /\ Len(released[1]) <= num_init[1]

C10_Witness ==
    /\ N = 3 /\ pc[1] = "loop" /\ calls[1] = 2
    /\ num_init[1] = 2 /\ call_rem[1] = << <<1, 1>> >>
    /\ buf[1][0].live /\ buf[1][1].live /\ ~buf[1][2].live

\* the fields of adapter a and what it has returned
Fields(a) == <<pc[a], iter[a], buf[a], num_init[a], cursor[a], ret[a],
               emitted[a], log[a], released[a], view[a]>>

\* C9: a clone has a copy of the original's source and a buffer with
\* independent copies of exactly the first num_init items and nothing
\* else; the original is not changed by it; afterwards no operation on one
\* adapter changes the other, the two adapters own distinct items, and
\* their next() calls return the same sequence of results.
C9_CloneStep ==
    (pc[2] = "absent" /\ pc'[2] # "absent") =>
      /\ pc'[2] = "idle"
      /\ iter'[2] = iter[1]
      /\ num_init'[2] = num_init[1]
      /\ \A i \in 0..(N - 1) :
           IF i < num_init[1]
           THEN /\ buf'[2][i].live
                /\ Content(buf'[2][i].val) = Content(buf[1][i].val)
                /\ buf'[2][i].val # buf[1][i].val
           ELSE buf'[2][i] = UninitSlot
      /\ Fields(1)' = Fields(1)

C9_CloneIndependent ==
    /\ [][C9_CloneStep]_vars
    /\ [][~(Fields(1)' # Fields(1) /\ Fields(2)' # Fields(2))]_vars
    /\ [](pc[2] # "absent" =>
            /\ \A i \in 1..Len(log[1]) :
                 i <= Len(log[2]) => log[1][i] = log[2][i]
            /\ \A a \in Adapters :
                 \A v \in Range(Owned(a)) \cup Range(Flatten(emitted[a]))
                            \cup Range(released[a]) : v[1] = a)

C9_Witness ==
    /\ N = 2 /\ script = Toggle(4)
    /\ pc[1] = "idle" /\ pc[2] = "idle"
    /\ log[1] = <<None, Some(<<1, 2>>)>>
    /\ log[2] = <<None, Some(<<1, 2>>)>>
    /\ emitted[1] = << << <<1, 1>>, <<1, 2>> >> >>
    /\ emitted[2] = << << <<2, 1>>, <<2, 2>> >> >>

\* C11: num_init changes in two ways only: it grows by one in the step that
\* stores an item of the source into slot num_init, or it is reset to 0 in
\* the step that moves all N items out as a chunk (never while the buffer
\* is partly filled); remainder(), size_hint() and a step of next() in
\* which the source answers None leave it as it is.
C11_Step ==
    /\ num_init'[1] # num_init[1] =>
         \/ /\ num_init'[1] = num_init[1] + 1
            /\ num_init[1] < N
            /\ IsSome(SourceItem(1))
            /\ buf'[1][num_init[1]] = NewSlot(Unwrap(SourceItem(1)))
            /\ consulted'[1] = consulted[1] + 1
         \/ /\ num_init'[1] = 0
            /\ num_init[1] = N
            /\ AllLive(1, 0, N)
            /\ emitted'[1] = Append(emitted[1], Prefix(1))
            /\ ret'[1] = Some(Prefix(1))
    /\ (view'[1] # view[1] \/ hint'[1] # hint[1] \/ panicked' # panicked)
         => num_init'[1] = num_init[1]
    /\ (log'[1] # log[1] /\ ret'[1] = None) => num_init'[1] = num_init[1]

C11_NumInitChanges == [][C11_Step]_vars

C11_Witness ==
    /\ N = 2 /\ pc[1] = "idle"
    /\ num_init[1] = 0 /\ Len(emitted[1]) = 1
    /\ call_rem[1] = << <<1, 1>> >> /\ call_got[1] = << <<1, 2>> >>
    /\ log[1] = <<None, Some(<<1, 2>>)>>

\* C12: a next() call that begins with num_init = k asks the source one
\* item at a time and stops at the (N - k)-th item in a row (the chunk is
\* returned) or at the first None (None is returned), whichever is first:
\* it asks at most N - k times, at least once when N >= 1, and also when
\* the call before it ended with a None of the source.
C12_AsksPerCall ==
    (calls[1] > 0 /\ pc[1] \in {"idle", "loop"}) =>
      LET k == Len(call_rem[1])
          got == Len(call_got[1])
      IN  /\ call_asked[1] <= N - k
          /\ pc[1] = "loop" => call_asked[1] = got
          /\ (pc[1] = "idle" /\ IsSome(ret[1])) =>
               call_asked[1] = got /\ got = N - k
          /\ (pc[1] = "idle" /\ ret[1] = None) =>
               call_asked[1] = got + 1
          /\ (pc[1] = "idle" /\ N >= 1) => call_asked[1] >= 1

C12_Witness ==
    /\ N = 2 /\ script = Toggle(4)
    /\ pc[1] = "idle" /\ calls[1] = 2
    /\ log[1] = <<None, Some(<<1, 2>>)>>
    /\ Len(call_rem[1]) = 1 /\ call_asked[1] = 1
    /\ consulted[1] = 3

\* the results of next() since the remembered size_hint(), and the number
\* of chunks among them before the first None
SinceEstimate(a) == SubSeq(log[a], Unwrap(est[a]).at + 1, Len(log[a]))

ChunksBeforeNone(sq) ==
    LET nones == {i \in 1..Len(sq) : sq[i] = None}
    IN  IF nones = {} THEN Len(sq)
        ELSE (CHOOSE i \in nones : \A j \in nones : i <= j) - 1

HasNone(sq) == \E i \in 1..Len(sq) : sq[i] = None

\* size_hint() bounds the chunks that next() returns before its first None
EstimateBoundsChunks ==
    LET e == Unwrap(est[1])
        sq == SinceEstimate(1)
        g == ChunksBeforeNone(sq)
    IN  /\ IsSome(e.out[2]) => g <= Unwrap(e.out[2])
        /\ HasNone(sq) => g >= e.out[1]
        /\ (HasNone(sq) /\ e.exact) => g = e.sum \div N

\* C13 as stated: for N >= 1, when the estimate of the source is correct
\* the chunks returned before the first None are at least the lower bound
\* and at most the upper bound, and for a source that knows its exact
\* remaining length R both bounds are (R + num_init) / N.
C13_AsStated ==
    (N >= 1 /\ IsSome(est[1])) =>
      /\ EstimateBoundsChunks
      /\ Unwrap(est[1]).exact =>
           Unwrap(est[1]).out = <<Unwrap(est[1]).sum \div N,
                                  Some(Unwrap(est[1]).sum \div N)>>

\* C13 amended: as stated, but for a source that knows its exact remaining
\* length R both bounds are (R + num_init) / N only if R + num_init is at
\* most the largest usize; otherwise the lower bound is MAX / N and there
\* is no upper bound.
C13_BoundsChunks ==
    (N >= 1 /\ IsSome(est[1])) =>
      /\ EstimateBoundsChunks
      /\ Unwrap(est[1]).exact =>
           Unwrap(est[1]).out =
             IF Unwrap(est[1]).sum <= USIZE_MAX
             THEN <<Unwrap(est[1]).sum \div N,
                    Some(Unwrap(est[1]).sum \div N)>>
             ELSE <<USIZE_MAX \div N, None>>

C13_Witness ==
    /\ N = 3 /\ script = AllTrue(7)
    /\ IsSome(est[1])
    /\ Unwrap(est[1]).exact /\ Unwrap(est[1]).at = 1
    /\ Unwrap(est[1]).out = <<1, Some(1)>>
    /\ log[1] = <<Some(<<1, 2, 3>>), Some(<<4, 5, 6>>), None>>

\* C14: for N >= 1 and a fused source, repeated next() calls at some time
\* return None; from then on every next() returns None and the buffer,
\* hence remainder(), stays as it is, and no chunk is returned.
C14_AfterNone ==
    (N >= 1 /\ IsFused(script) /\ HasNone(log[1])) =>
      /\ buf'[1] = buf[1]
      /\ num_init'[1] = num_init[1]
      /\ emitted'[1] = emitted[1]
      /\ log'[1] # log[1] => log'[1] = Append(log[1], None) /\ ret'[1] = None
      /\ (IsSome(view[1]) /\ IsSome(view'[1])) => view'[1] = view[1]

C14_NoneForGood ==
    /\ (N >= 1 /\ IsFused(script)) =>
         <>(pc[1] = "idle" /\ calls[1] > 0 /\ ret[1] = None)
    /\ [][C14_AfterNone]_vars

C14_Witness ==
    /\ N = 3 /\ script = AllTrue(5)
    /\ pc[1] = "idle"
    /\ log[1] = <<Some(<<1, 2, 3>>), None, None, None>>
    /\ view[1] = Some(<< <<1, 4>>, <<1, 5>> >>)

\* C15: for N >= 1, between calls (after new() and after next() returned
\* anything) num_init < N, so the remainder has fewer than N items.
C15_NeverFullBetweenCalls ==
    (N >= 1 /\ pc[1] \in {"idle", "dropped"}) =>
      /\ num_init[1] < N
      /\ IsSome(view[1]) => Len(Unwrap(view[1])) < N
      /\ Len(released[1]) < N

C15_Witness ==
    /\ N = 3 /\ pc[1] = "idle"
    /\ num_init[1] = 2 /\ Len(emitted[1]) = 2
    /\ ret[1] = None

====
